---- MODULE Spec2Model ----
(***************************************************************************)
(* Login-attempt policies of django_auth_policy/authentication.py:         *)
(* the lockout evaluators keyed by username and by source address, the     *)
(* basic checks, the duration formatter, and the policy chain that runs    *)
(* them around one login attempt against the shared LoginAttempt table.    *)
(***************************************************************************)
EXTENDS Integers, Sequences, FiniteSets, TLC

VARIABLES
    log,      \* the LoginAttempt table: a sequence of records, id = index
    now,      \* timezone.now(), in seconds
    policy,   \* class attributes of the two lockout policies
    phase,    \* "class": classes defined; "ready": policies instantiated
    pc,       \* position of each login attempt in the policy chain
    att,      \* the in-memory loginattempt object (and locals) of each attempt
    hist      \* per recent attempt: which checks ran and what the chain returned

vars == <<log, now, policy, phase, pc, att, hist>>

----------------------------------------------------------------------------
(* Bounds of the model *)

MaxAttempts == 3        \* login attempts (records) in the main specification
MaxTime == 2            \* the clock runs 0..MaxTime
MaxMaxFailed == 2       \* AUTH_POLICY_MAX_FAILED ranges over 1..MaxMaxFailed
MaxDuration == 1        \* AUTH_POLICY_LOCKOUT_DURATION ranges over 1..MaxDuration

NoneVal == "None"
\* an optional number of seconds is the empty set (None) or a singleton
NoPeriod == {}
Seconds(n) == {n}
NoId == 0               \* exclude_id=None: ids start at 1, so nothing is excluded

Usernames == {"bob", "Bob", "eve"}
Addresses == {"10.0.0.1", "10.0.0.2"}
Passwords == {"", "wrong", "right"}
PolicyNames == {"username", "address"}

\* username__iexact compares case-insensitively
Lower(s) == IF s = "Bob" THEN "bob" ELSE s

Max(S) == CHOOSE x \in S : \A y \in S : y <= x

PyBool(b) == IF b THEN "True" ELSE "False"
\* `if locked:` -- None and False are both falsy
Truthy(v) == v = "True"

----------------------------------------------------------------------------
(* _format_lockduration *)

\* datetime.timedelta(seconds=seconds).days / .seconds for an integer argument
TimedeltaDays(seconds) == seconds \div 86400
TimedeltaSeconds(seconds) == seconds % 86400

\* variant: the first tier tested with >= in place of >
FormatLockduration_DaysGE(seconds) ==
    LET days == TimedeltaDays(seconds)
        secs == TimedeltaSeconds(seconds)
    IN  IF days >= 1 THEN ToString(days) \o " days"
        ELSE IF secs >= 120 THEN ToString(secs \div 60) \o " minutes"
        ELSE IF secs >= 60 THEN "a minute"
        ELSE ToString(secs) \o " seconds"

FormatLockduration(seconds) ==
    LET days == TimedeltaDays(seconds)
        secs == TimedeltaSeconds(seconds)
    IN  IF days > 1 THEN ToString(days) \o " days"
        ELSE IF days = 1 THEN "a day"
        ELSE IF secs >= 120 THEN ToString(secs \div 60) \o " minutes"
        ELSE IF secs >= 60 THEN "a minute"
        ELSE ToString(secs) \o " seconds"

LockedText == "Too many failed login attempts. Your account has been locked for "

ValidationMsg(c) == LockedText \o FormatLockduration(c.lockout_duration) \o "."

----------------------------------------------------------------------------
(* The class-level assertion of both lockout policies *)

PeriodAssert(period, lockout_duration) ==
    period = NoPeriod \/ \A per \in period : per > lockout_duration

----------------------------------------------------------------------------
(* AuthenticationLockedUsername.is_locked *)

NoPrev == [found |-> FALSE, lockout |-> FALSE, timestamp |-> 0]
Fetched(r) == [found |-> TRUE, lockout |-> r.lockout, timestamp |-> r.timestamp]

\* variant: exact-case comparison in place of iexact
UsernameMatches_Exact(l, username, exclude_id) ==
    {i \in 1..Len(l) : l[i].username = username /\ i # exclude_id}

UsernameMatches(l, username, exclude_id) ==
    {i \in 1..Len(l) : Lower(l[i].username) = Lower(username) /\ i # exclude_id}

\* variant: order_by('id') in place of order_by('-id')
UsernamePrevLogin_Oldest(l, username, exclude_id) ==
    LET m == UsernameMatches(l, username, exclude_id)
    IN  IF m = {} THEN NoPrev
        ELSE Fetched(l[CHOOSE i \in m : \A j \in m : i <= j])

\* variant: order_by('-timestamp') in place of order_by('-id'); among rows
\* of the same timestamp the first inserted comes first
UsernamePrevLogin_ByTimestamp(l, username, exclude_id) ==
    LET m == UsernameMatches(l, username, exclude_id)
        latest == {i \in m : \A j \in m : l[j].timestamp <= l[i].timestamp}
    IN  IF m = {} THEN NoPrev
        ELSE Fetched(l[CHOOSE i \in latest : \A j \in latest : i <= j])

\* filter(username__iexact=username).exclude(pk=exclude_id).order_by('-id')[0]
UsernamePrevLogin(l, username, exclude_id) ==
    LET m == UsernameMatches(l, username, exclude_id)
    IN  IF m = {} THEN NoPrev ELSE Fetched(l[Max(m)])

\* variant: successful=True in place of successful=False
UsernameLockoutCount_Successful(l, c, t, username, exclude_id) ==
    Cardinality({i \in UsernameMatches(l, username, exclude_id) :
                    /\ l[i].successful
                    /\ l[i].lockout
                    /\ (c.period # NoPeriod =>
                            \A per \in c.period : l[i].timestamp > t - per)})

\* variant: the window tested with >= in place of >
UsernameLockoutCount_WindowGE(l, c, t, username, exclude_id) ==
    Cardinality({i \in UsernameMatches(l, username, exclude_id) :
                    /\ ~l[i].successful
                    /\ l[i].lockout
                    /\ (c.period # NoPeriod =>
                            \A per \in c.period : l[i].timestamp >= t - per)})

\* variant: the rows counted per distinct timestamp
UsernameLockoutCount_DistinctTimestamps(l, c, t, username, exclude_id) ==
    Cardinality({l[i].timestamp : i \in
                    {j \in UsernameMatches(l, username, exclude_id) :
                        /\ ~l[j].successful
                        /\ l[j].lockout
                        /\ (c.period # NoPeriod =>
                                \A per \in c.period : l[j].timestamp > t - per)}})

\* filter(username__iexact=username, successful=False, lockout=True)
\*   .exclude(pk=exclude_id) [.filter(timestamp__gt=now - period)] .count()
UsernameLockoutCount(l, c, t, username, exclude_id) ==
    Cardinality({i \in UsernameMatches(l, username, exclude_id) :
                    /\ ~l[i].successful
                    /\ l[i].lockout
                    /\ (c.period # NoPeriod =>
                            \A per \in c.period : l[i].timestamp > t - per)})

\* variant: the threshold compared with > in place of >=
UsernameDecide_GT(l, c, t, username, exclude_id, prev_login) ==
    IF ~prev_login.found THEN "False"
    ELSE IF ~prev_login.lockout THEN "False"
    ELSE IF prev_login.timestamp < t - c.lockout_duration THEN "False"
    ELSE PyBool(UsernameLockoutCount(l, c, t, username, exclude_id) > c.max_failed)

\* is_locked from the fetched prev_login on: flag, expiry, count, threshold
UsernameDecide(l, c, t, username, exclude_id, prev_login) ==
    IF ~prev_login.found THEN "False"
    ELSE IF ~prev_login.lockout THEN "False"
    ELSE IF prev_login.timestamp < t - c.lockout_duration THEN "False"
    ELSE PyBool(UsernameLockoutCount(l, c, t, username, exclude_id) >= c.max_failed)

UsernameIsLocked(l, c, t, username, exclude_id) ==
    UsernameDecide(l, c, t, username, exclude_id,
                   UsernamePrevLogin(l, username, exclude_id))

----------------------------------------------------------------------------
(* AuthenticationLockedRemoteAddress.is_locked *)

\* variant: the source_address filter left out
AddressMatches_NoFilter(l, source_address, exclude_id) ==
    {i \in 1..Len(l) : i # exclude_id}

AddressMatches(l, source_address, exclude_id) ==
    {i \in 1..Len(l) : l[i].source_address = source_address /\ i # exclude_id}

AddressPrevLogin(l, source_address, exclude_id) ==
    LET m == AddressMatches(l, source_address, exclude_id)
    IN  IF m = {} THEN NoPrev ELSE Fetched(l[Max(m)])

\* variant: the lockout=True filter left out
AddressLockoutCount_NoLockoutFilter(l, c, t, source_address, exclude_id) ==
    Cardinality({i \in AddressMatches(l, source_address, exclude_id) :
                    c.period # NoPeriod =>
                        \A per \in c.period : l[i].timestamp > t - per})

\* filter(source_address=source_address, lockout=True).exclude(pk=exclude_id)
AddressLockoutCount(l, c, t, source_address, exclude_id) ==
    Cardinality({i \in AddressMatches(l, source_address, exclude_id) :
                    /\ l[i].lockout
                    /\ (c.period # NoPeriod =>
                            \A per \in c.period : l[i].timestamp > t - per)})

\* variant: the expiry compared with <= in place of <
AddressDecide_ExpiryLE(l, c, t, source_address, exclude_id, prev_login) ==
    IF ~prev_login.found THEN NoneVal
    ELSE IF ~prev_login.lockout THEN NoneVal
    ELSE IF prev_login.timestamp <= t - c.lockout_duration THEN NoneVal
    ELSE PyBool(AddressLockoutCount(l, c, t, source_address, exclude_id) >= c.max_failed)

\* the early exits are a bare `return`: None
AddressDecide(l, c, t, source_address, exclude_id, prev_login) ==
    IF ~prev_login.found THEN NoneVal
    ELSE IF ~prev_login.lockout THEN NoneVal
    ELSE IF prev_login.timestamp < t - c.lockout_duration THEN NoneVal
    ELSE PyBool(AddressLockoutCount(l, c, t, source_address, exclude_id) >= c.max_failed)

AddressIsLocked(l, c, t, source_address, exclude_id) ==
    AddressDecide(l, c, t, source_address, exclude_id,
                  AddressPrevLogin(l, source_address, exclude_id))

----------------------------------------------------------------------------
(* auth_success of the two lockout policies: the bulk clear *)

\* variant: the update left out
UsernameAuthSuccess_Noop(l, username) == l

\* variant: the username filter left out
UsernameAuthSuccess_AllUsers(l, username) ==
    [i \in 1..Len(l) |->
        IF l[i].lockout THEN [l[i] EXCEPT !.lockout = FALSE] ELSE l[i]]

UsernameAuthSuccess(l, username) ==
    [i \in 1..Len(l) |->
        IF Lower(l[i].username) = Lower(username) /\ l[i].lockout
        THEN [l[i] EXCEPT !.lockout = FALSE] ELSE l[i]]

AddressAuthSuccess(l, source_address) ==
    [i \in 1..Len(l) |->
        IF l[i].source_address = source_address /\ l[i].lockout
        THEN [l[i] EXCEPT !.lockout = FALSE] ELSE l[i]]

----------------------------------------------------------------------------
(* State after the two policy classes have been defined *)

NProcs == 2
Procs == 1..NProcs

Idle == [id |-> NoId, username |-> "", password |-> "", source_address |-> "",
         user |-> NoneVal, prev_login |-> NoPrev, code |-> "", msg |-> ""]

\* class body: max_failed and lockout_duration from the settings, period = None;
\* the assert statement runs here, on these class-level values
ClassAttrs(mf, ld) == [max_failed |-> mf, period |-> NoPeriod, lockout_duration |-> ld]

Init ==
    /\ log = <<>>
    /\ now = 0
    /\ \E mf \in 1..MaxMaxFailed, ld \in 1..MaxDuration :
          /\ PeriodAssert(ClassAttrs(mf, ld).period, ClassAttrs(mf, ld).lockout_duration)
          /\ policy = [n \in PolicyNames |-> ClassAttrs(mf, ld)]
    /\ phase = "class"
    /\ pc = [p \in Procs |-> "idle"]
    /\ att = [p \in Procs |-> Idle]
    /\ hist = <<>>

\* A deployment overrides `period` on the lockout policies it configures (a
\* subclass attribute), here with one value for both; nothing re-evaluates
\* the class assert.  The override is absent, or up to one second more than
\* the longest lockout duration.
PeriodChoices == {NoPeriod} \cup {Seconds(n) : n \in 1..(MaxDuration + 1)}

Configure ==
    /\ phase = "class"
    /\ \E per \in PeriodChoices :
          policy' = [policy EXCEPT !["username"].period = per,
                                   !["address"].period = per]
    /\ phase' = "ready"
    /\ UNCHANGED <<log, now, pc, att, hist>>

Tick ==
    /\ now < MaxTime
    /\ now' = now + 1
    /\ UNCHANGED <<log, policy, phase, pc, att, hist>>

----------------------------------------------------------------------------
(* The checks of the policy chain, in their configured order *)

InvalidText == "Please enter a correct username and password. Note that both fields may be case-sensitive."

\* AuthenticationBasicChecks.pre_auth_check: the code it raises, or "ok"
BasicPreAuthCheck(username, password) ==
    IF username = "" THEN "invalid_login"
    ELSE IF password = "" THEN "invalid_login"
    ELSE "ok"

\* AuthenticationBasicChecks.post_auth_check: the code it raises, or "ok"
BasicPostAuthCheck(user) ==
    IF user = NoneVal THEN "invalid_login"
    ELSE IF user # "active" THEN "inactive"
    ELSE "ok"

\* the opaque credential verification resolves an identity only for the right
\* password; the identity may have been deactivated
VerifyResults(password) ==
    IF password = "right" THEN {"active", "inactive"} ELSE {NoneVal}

NewAttempt(u, a, t) ==
    [username |-> u, source_address |-> a, timestamp |-> t,
     successful |-> FALSE, lockout |-> TRUE]

\* what the chain observed and returned for one attempt
NewHist(id, u, a) ==
    [id |-> id, username |-> u, source_address |-> a, password |-> "",
     time |-> 0, code |-> "pending", msg |-> "", user |-> NoneVal,
     user_checked |-> FALSE, user_locked |-> FALSE,
     addr_checked |-> FALSE, addr_locked |-> FALSE,
     verified |-> FALSE, hooks |-> {}]

\* finalizing the attempt record once the outcome is known
MarkFailure(l, id) == [l EXCEPT ![id].successful = FALSE, ![id].lockout = TRUE]
MarkSuccess(l, id) == [l EXCEPT ![id].successful = TRUE, ![id].lockout = FALSE]

\* variant: is_locked called without exclude_id
UsernamePreAuthCheck_NoExclude(l, c, t, username, id) ==
    IF Truthy(UsernameIsLocked(l, c, t, username, NoId))
    THEN "username_locked_out" ELSE "ok"

\* AuthenticationLockedUsername.pre_auth_check: is_locked with the attempt's
\* own record excluded; the code it raises, or "ok"
UsernamePreAuthCheck(l, c, t, username, id) ==
    IF Truthy(UsernameIsLocked(l, c, t, username, id))
    THEN "username_locked_out" ELSE "ok"

\* AuthenticationLockedRemoteAddress.pre_auth_check
AddressPreAuthCheck(l, c, t, source_address, id) ==
    IF Truthy(AddressIsLocked(l, c, t, source_address, id))
    THEN "address_locked_out" ELSE "ok"

\* Steps 2-4 for the attempt with record `id` of table l at time t: the
\* pre-checks in order, the verification (yielding `user`), the post-checks.
\* The first failure ends the chain.
ChainOutcome(l, t, id, u, pw, a, user) ==
    LET h0 == [NewHist(id, u, a) EXCEPT !.password = pw, !.time = t]
        b  == BasicPreAuthCheck(u, pw)
        ul == UsernamePreAuthCheck(l, policy["username"], t, u, id)
        al == AddressPreAuthCheck(l, policy["address"], t, a, id)
        po == BasicPostAuthCheck(user)
    IN  IF b # "ok" THEN [h0 EXCEPT !.code = b, !.msg = InvalidText]
        ELSE IF ul # "ok"
        THEN [h0 EXCEPT !.code = ul, !.msg = ValidationMsg(policy["username"]),
                        !.user_checked = TRUE, !.user_locked = TRUE]
        ELSE IF al # "ok"
        THEN [h0 EXCEPT !.code = al, !.msg = ValidationMsg(policy["address"]),
                        !.user_checked = TRUE, !.addr_checked = TRUE,
                        !.addr_locked = TRUE]
        ELSE IF po # "ok"
        THEN [h0 EXCEPT !.code = po, !.msg = InvalidText, !.user = user,
                        !.user_checked = TRUE, !.addr_checked = TRUE,
                        !.verified = TRUE]
        ELSE [h0 EXCEPT !.code = "success", !.user = user,
                        !.user_checked = TRUE, !.addr_checked = TRUE,
                        !.verified = TRUE, !.hooks = {"username", "address"}]

\* hist keeps the outcomes of the K most recent attempts
Recorded(h, o, K) ==
    LET h2 == Append(h, o)
    IN  IF Len(h2) > K THEN SubSeq(h2, Len(h2) - K + 1, Len(h2)) ELSE h2

\* One login attempt from start to end (the chain runs synchronously):
\* create the record, run the checks, finalize the record, and on success
\* run the auth_success hooks of the username and the address policy.
Login(U, P, A, N, K) ==
    /\ phase = "ready"
    /\ \A p \in DOMAIN pc : pc[p] = "idle"
    /\ Len(log) < N
    /\ \E u \in U, pw \in P, a \in A :
       \E user \in VerifyResults(pw) :
          LET id == Len(log) + 1
              l1 == Append(log, NewAttempt(u, a, now))
              o  == ChainOutcome(l1, now, id, u, pw, a, user)
          IN  /\ log' = IF o.code = "success"
                        THEN AddressAuthSuccess(
                                 UsernameAuthSuccess(MarkSuccess(l1, id), u), a)
                        ELSE MarkFailure(l1, id)
              /\ hist' = Recorded(hist, o, K)
    /\ UNCHANGED <<now, policy, phase, pc, att>>

----------------------------------------------------------------------------
(* Login attempts one after another *)

Next ==
    \/ Configure
    \/ Tick
    \/ Login(Usernames, Passwords, Addresses, MaxAttempts, 1)

Spec == Init /\ [][Next]_vars

----------------------------------------------------------------------------
(* One username trying again and again from one address, with the threshold *)
(* of the end-to-end scenario                                              *)

E2EMaxFailed == 3
E2EAttempts == E2EMaxFailed + 2

InitE2E ==
    /\ log = <<>>
    /\ now = 0
    /\ \E ld \in 1..MaxDuration :
          policy = [n \in PolicyNames |-> ClassAttrs(E2EMaxFailed, ld)]
    /\ phase = "class"
    /\ pc = [p \in Procs |-> "idle"]
    /\ att = [p \in Procs |-> Idle]
    /\ hist = <<>>

NextE2E ==
    \/ Configure
    \/ Tick
    \/ Login({"bob"}, {"wrong", "right"}, {"10.0.0.1"}, E2EAttempts, E2EAttempts)

SpecE2E == InitE2E /\ [][NextE2E]_vars

----------------------------------------------------------------------------
(* Lockout durations of every tier of the formatter: a username is locked  *)
(* out after one failure and the rejection carries the formatted message   *)

MaxFmtDays == 2
MaxFmtRemainder == 125
FmtAttempts == 2

FmtDurations ==
    {d * 86400 + r : d \in 0..MaxFmtDays, r \in (0..MaxFmtRemainder) \cup {7200, 86399}}

InitFmt ==
    /\ log = <<>>
    /\ now = 0
    /\ \E ld \in FmtDurations :
          policy = [n \in PolicyNames |-> ClassAttrs(1, ld)]
    /\ phase = "ready"
    /\ pc = [p \in Procs |-> "idle"]
    /\ att = [p \in Procs |-> Idle]
    /\ hist = <<>>

NextFmt ==
    \/ Tick
    \/ Login({"bob"}, {"wrong"}, Addresses, FmtAttempts, 1)

SpecFmt == InitFmt /\ [][NextFmt]_vars

----------------------------------------------------------------------------
(* Concurrent login attempts against the shared table: each statement of   *)
(* the chain that reads or writes the table is one step                    *)

ConcAttempts == 3

HistIndex(h, id) == CHOOSE i \in 1..Len(h) : h[i].id = id

Goto(p, label) == pc' = [pc EXCEPT ![p] = label]

\* a check raised ValidationError(code): the chain goes on to record the failure
Raise(p, code, msg) ==
    /\ att' = [att EXCEPT ![p].code = code, ![p].msg = msg]
    /\ Goto(p, "failed")

\* step 1: create the attempt record
Start(p, U, P, A, N) ==
    /\ phase = "ready"
    /\ pc[p] = "idle"
    /\ Len(log) < N
    /\ \E u \in U, pw \in P, a \in A :
          /\ log' = Append(log, NewAttempt(u, a, now))
          /\ att' = [att EXCEPT ![p] = [Idle EXCEPT !.id = Len(log) + 1,
                                                     !.username = u,
                                                     !.password = pw,
                                                     !.source_address = a]]
          /\ hist' = Append(hist, [NewHist(Len(log) + 1, u, a) EXCEPT
                                      !.password = pw, !.time = now])
    /\ Goto(p, "basic")
    /\ UNCHANGED <<now, policy, phase>>

StepBasicPre(p) ==
    /\ pc[p] = "basic"
    /\ LET b == BasicPreAuthCheck(att[p].username, att[p].password)
       IN  IF b # "ok" THEN Raise(p, b, InvalidText)
           ELSE Goto(p, "user_fetch") /\ att' = att
    /\ UNCHANGED <<log, now, policy, phase, hist>>

\* AuthenticationLockedUsername.is_locked: the query for prev_login
StepUsernameFetch(p) ==
    /\ pc[p] = "user_fetch"
    /\ att' = [att EXCEPT ![p].prev_login =
                  UsernamePrevLogin(log, att[p].username, att[p].id)]
    /\ Goto(p, "user_decide")
    /\ UNCHANGED <<log, now, policy, phase, hist>>

\* ... the flag, now, the expiry, the count query; then pre_auth_check raises
StepUsernameDecide(p) ==
    /\ pc[p] = "user_decide"
    /\ LET locked == Truthy(UsernameDecide(log, policy["username"], now,
                                           att[p].username, att[p].id,
                                           att[p].prev_login))
           i == HistIndex(hist, att[p].id)
       IN  /\ hist' = [hist EXCEPT ![i].user_checked = TRUE,
                                   ![i].user_locked = locked]
           /\ IF locked
              THEN Raise(p, "username_locked_out", ValidationMsg(policy["username"]))
              ELSE Goto(p, "addr_fetch") /\ att' = att
    /\ UNCHANGED <<log, now, policy, phase>>

StepAddressFetch(p) ==
    /\ pc[p] = "addr_fetch"
    /\ att' = [att EXCEPT ![p].prev_login =
                  AddressPrevLogin(log, att[p].source_address, att[p].id)]
    /\ Goto(p, "addr_decide")
    /\ UNCHANGED <<log, now, policy, phase, hist>>

StepAddressDecide(p) ==
    /\ pc[p] = "addr_decide"
    /\ LET locked == Truthy(AddressDecide(log, policy["address"], now,
                                          att[p].source_address, att[p].id,
                                          att[p].prev_login))
           i == HistIndex(hist, att[p].id)
       IN  /\ hist' = [hist EXCEPT ![i].addr_checked = TRUE,
                                   ![i].addr_locked = locked]
           /\ IF locked
              THEN Raise(p, "address_locked_out", ValidationMsg(policy["address"]))
              ELSE Goto(p, "verify") /\ att' = att
    /\ UNCHANGED <<log, now, policy, phase>>

\* steps 3 and 4: the credential verification, then the post-checks
StepVerify(p) ==
    /\ pc[p] = "verify"
    /\ \E user \in VerifyResults(att[p].password) :
          LET i == HistIndex(hist, att[p].id)
              po == BasicPostAuthCheck(user)
          IN  /\ hist' = [hist EXCEPT ![i].verified = TRUE, ![i].user = user]
              /\ att' = [att EXCEPT ![p].user = user,
                                    ![p].code = IF po # "ok" THEN po ELSE "",
                                    ![p].msg = IF po # "ok" THEN InvalidText ELSE ""]
              /\ Goto(p, IF po # "ok" THEN "failed" ELSE "success")
    /\ UNCHANGED <<log, now, policy, phase>>

\* step 6: finalize the record of a rejected attempt and return the failure
StepFinalizeFailure(p) ==
    /\ pc[p] = "failed"
    /\ log' = MarkFailure(log, att[p].id)
    /\ hist' = [hist EXCEPT ![HistIndex(hist, att[p].id)].code = att[p].code,
                            ![HistIndex(hist, att[p].id)].msg = att[p].msg]
    /\ Goto(p, "idle")
    /\ att' = [att EXCEPT ![p] = Idle]
    /\ UNCHANGED <<now, policy, phase>>

\* step 5: finalize the record of a successful attempt
StepFinalizeSuccess(p) ==
    /\ pc[p] = "success"
    /\ log' = MarkSuccess(log, att[p].id)
    /\ Goto(p, "hook_user")
    /\ UNCHANGED <<now, policy, phase, att, hist>>

\* AuthenticationLockedUsername.auth_success
StepUsernameHook(p) ==
    /\ pc[p] = "hook_user"
    /\ log' = UsernameAuthSuccess(log, att[p].username)
    /\ hist' = [hist EXCEPT ![HistIndex(hist, att[p].id)].hooks = @ \cup {"username"}]
    /\ Goto(p, "hook_addr")
    /\ UNCHANGED <<now, policy, phase, att>>

\* AuthenticationLockedRemoteAddress.auth_success; the chain returns success
StepAddressHook(p) ==
    /\ pc[p] = "hook_addr"
    /\ log' = AddressAuthSuccess(log, att[p].source_address)
    /\ hist' = [hist EXCEPT ![HistIndex(hist, att[p].id)].hooks = @ \cup {"address"},
                            ![HistIndex(hist, att[p].id)].code = "success"]
    /\ Goto(p, "idle")
    /\ att' = [att EXCEPT ![p] = Idle]
    /\ UNCHANGED <<now, policy, phase>>

InitConc ==
    /\ log = <<>>
    /\ now = 0
    /\ \E mf \in 1..MaxMaxFailed, ld \in 1..MaxDuration :
          policy = [n \in PolicyNames |-> ClassAttrs(mf, ld)]
    /\ phase = "ready"
    /\ pc = [p \in Procs |-> "idle"]
    /\ att = [p \in Procs |-> Idle]
    /\ hist = <<>>

NextConc ==
    \/ Tick
    \/ \E p \in Procs :
          \/ Start(p, {"bob"}, {"wrong", "right"}, {"10.0.0.1"}, ConcAttempts)
          \/ StepBasicPre(p)
          \/ StepUsernameFetch(p)
          \/ StepUsernameDecide(p)
          \/ StepAddressFetch(p)
          \/ StepAddressDecide(p)
          \/ StepVerify(p)
          \/ StepFinalizeFailure(p)
          \/ StepFinalizeSuccess(p)
          \/ StepUsernameHook(p)
          \/ StepAddressHook(p)

SpecConc == InitConc /\ [][NextConc]_vars

----------------------------------------------------------------------------
(* AuthenticationUsernameWhitelist and a chain in a configured order        *)

ChainAttempts == 2

\* regex.search(loginattempt.username) for the literal patterns used here:
\* a case-sensitive search for the pattern anywhere in the username
RegexSearch(pattern, username) ==
    CASE pattern = "bob" -> username = "bob"
      [] pattern = "o" -> username \in {"bob", "Bob"}
      [] OTHER -> FALSE

\* class attributes: the patterns and the list of compiled patterns
Whitelists == {<<>>, <<"bob">>, <<"o", "bob">>}
WhitelistAttrs(wl) == [whitelist |-> wl, _whitelist_regex |-> <<>>]

\* `if not self._whitelist_regex:` compile every pattern into the list
WhitelistCompiled(w) ==
    IF w._whitelist_regex = <<>>
    THEN [w EXCEPT !._whitelist_regex = @ \o w.whitelist]
    ELSE w

\* variant: a username matching no pattern is let through
WhitelistPreAuthCheck_Open(w, username) == "ok"

\* AuthenticationUsernameWhitelist.pre_auth_check: the code it raises, or "ok"
WhitelistPreAuthCheck(w, username) ==
    LET regexes == WhitelistCompiled(w)._whitelist_regex
    IN  IF \E i \in 1..Len(regexes) : RegexSearch(regexes[i], username)
        THEN "ok" ELSE "invalid_login"

\* the policies of the handler, in the order they are configured
ChainOrders ==
    { <<"basic", "username", "address", "whitelist">>,
      <<"whitelist", "basic", "username", "address">>,
      <<"username", "address", "whitelist", "basic">> }

\* pre_auth_check of the policy `name` for the attempt with record id
PreAuthCheck(name, l, t, id, u, pw, a) ==
    CASE name = "basic" -> BasicPreAuthCheck(u, pw)
      [] name = "username" -> UsernamePreAuthCheck(l, policy["username"], t, u, id)
      [] name = "address" -> AddressPreAuthCheck(l, policy["address"], t, a, id)
      [] name = "whitelist" -> WhitelistPreAuthCheck(policy["whitelist"], u)

\* the message of the ValidationError the policy `name` raises
PolicyText(name) ==
    IF name \in PolicyNames THEN ValidationMsg(policy[name]) ELSE InvalidText

\* step 2: the pre-checks one after another; the first that raises ends the
\* loop.  `ran` lists the checks that were called.
RECURSIVE PreAuthChecks(_, _, _, _, _, _, _)
PreAuthChecks(order, l, t, id, u, pw, a) ==
    IF order = <<>> THEN [code |-> "ok", msg |-> "", ran |-> <<>>]
    ELSE LET c == PreAuthCheck(Head(order), l, t, id, u, pw, a)
         IN  IF c # "ok"
             THEN [code |-> c, msg |-> PolicyText(Head(order)), ran |-> <<Head(order)>>]
             ELSE LET r == PreAuthChecks(Tail(order), l, t, id, u, pw, a)
                  IN  [r EXCEPT !.ran = <<Head(order)>> \o @]

\* post_auth_check of the policy `name`: only the basic checks define one
PostAuthCheck(name, user) ==
    IF name = "basic" THEN BasicPostAuthCheck(user) ELSE "ok"

\* step 4: the post-checks one after another
RECURSIVE PostAuthChecks(_, _)
PostAuthChecks(order, user) ==
    IF order = <<>> THEN [code |-> "ok", msg |-> "", ran |-> <<>>]
    ELSE LET c == PostAuthCheck(Head(order), user)
         IN  IF c # "ok"
             THEN [code |-> c, msg |-> PolicyText(Head(order)), ran |-> <<Head(order)>>]
             ELSE LET r == PostAuthChecks(Tail(order), user)
                  IN  [r EXCEPT !.ran = <<Head(order)>> \o @]

\* auth_success of the policy `name`
AuthSuccess(name, l, u, a) ==
    CASE name = "username" -> UsernameAuthSuccess(l, u)
      [] name = "address" -> AddressAuthSuccess(l, a)
      [] OTHER -> l

\* step 5: the success hooks one after another
RECURSIVE AuthSuccessAll(_, _, _, _)
AuthSuccessAll(order, l, u, a) ==
    IF order = <<>> THEN l
    ELSE AuthSuccessAll(Tail(order), AuthSuccess(Head(order), l, u, a), u, a)

\* what the chain observed and returned: the checks called before and after
\* the verification, whether the verification was called, and the outcome
ChainHist(id, u, pw, a, t, pre, verified, user, post) ==
    [id |-> id, username |-> u, source_address |-> a, password |-> pw,
     time |-> t, user |-> user, pre |-> pre.ran, verified |-> verified,
     post |-> post.ran,
     code |-> IF pre.code # "ok" THEN pre.code
              ELSE IF post.code # "ok" THEN post.code ELSE "success",
     msg |-> IF pre.code # "ok" THEN pre.msg ELSE post.msg]

NotRun == [code |-> "ok", msg |-> "", ran |-> <<>>]

\* One login attempt through the configured chain: create the record, run
\* the pre-checks, verify, run the post-checks, finalize the record and on
\* success run the hooks.  The whitelist policy compiles its patterns the
\* first time its pre-check is called.
LoginChain(U, P, A, N) ==
    /\ phase = "ready"
    /\ Len(log) < N
    /\ \E u \in U, pw \in P, a \in A :
       \E user \in VerifyResults(pw) :
          LET id == Len(log) + 1
              order == policy["handler"].policies
              l1 == Append(log, NewAttempt(u, a, now))
              pre == PreAuthChecks(order, l1, now, id, u, pw, a)
              passed == pre.code = "ok"
              post == IF passed THEN PostAuthChecks(order, user) ELSE NotRun
              o == ChainHist(id, u, pw, a, now, pre, passed,
                             IF passed THEN user ELSE NoneVal, post)
          IN  /\ log' = IF o.code = "success"
                        THEN AuthSuccessAll(order, MarkSuccess(l1, id), u, a)
                        ELSE MarkFailure(l1, id)
              /\ hist' = <<o>>
              /\ policy' = IF \E i \in 1..Len(pre.ran) : pre.ran[i] = "whitelist"
                           THEN [policy EXCEPT !["whitelist"] = WhitelistCompiled(@)]
                           ELSE policy
    /\ UNCHANGED <<now, phase, pc, att>>

InitChain ==
    /\ log = <<>>
    /\ now = 0
    /\ \E mf \in 1..MaxMaxFailed, ld \in 1..MaxDuration :
       \E wl \in Whitelists, order \in ChainOrders :
          policy = [n \in PolicyNames \cup {"whitelist", "handler"} |->
                       IF n \in PolicyNames THEN ClassAttrs(mf, ld)
                       ELSE IF n = "whitelist" THEN WhitelistAttrs(wl)
                       ELSE [policies |-> order]]
    /\ phase = "ready"
    /\ pc = [p \in Procs |-> "idle"]
    /\ att = [p \in Procs |-> Idle]
    /\ hist = <<>>

NextChain ==
    \/ Tick
    \/ LoginChain(Usernames \cup {""}, Passwords, Addresses, ChainAttempts)

SpecChain == InitChain /\ [][NextChain]_vars

----------------------------------------------------------------------------
(* is_locked applied to the LoginAttempt table as writers may leave it: a   *)
(* row's timestamp is taken before the row is inserted and gets its id, so  *)
(* timestamps need not follow the order of the ids                          *)

TableRows == 3

\* successful / lockout of a stored row: a failure that counts, a failure
\* whose lockout was cleared, a success
RowFlags == {<<FALSE, TRUE>>, <<FALSE, FALSE>>, <<TRUE, FALSE>>}

Insert(U, A, N) ==
    /\ Len(log) < N
    /\ \E u \in U, a \in A, t \in 0..now, f \in RowFlags :
          log' = Append(log, [NewAttempt(u, a, t) EXCEPT !.successful = f[1],
                                                         !.lockout = f[2]])
    /\ UNCHANGED <<now, policy, phase, pc, att, hist>>

\* a call of is_locked of either policy; hist keeps the call and its result
Evaluate(U, A) ==
    /\ \E kind \in PolicyNames :
       \E key \in (IF kind = "username" THEN U ELSE A) :
       \E ex \in {NoId, Len(log)} :
          hist' = << [kind |-> kind, key |-> key, exclude_id |-> ex,
                      time |-> now, rows |-> Len(log),
                      result |-> IF kind = "username"
                                 THEN UsernameIsLocked(log, policy[kind], now, key, ex)
                                 ELSE AddressIsLocked(log, policy[kind], now, key, ex)] >>
    /\ UNCHANGED <<log, now, policy, phase, pc, att>>

InitTable ==
    /\ log = <<>>
    /\ now = 0
    /\ \E mf \in 1..MaxMaxFailed, ld \in 1..MaxDuration :
          policy = [n \in PolicyNames |-> ClassAttrs(mf, ld)]
    /\ phase = "ready"
    /\ pc = [p \in Procs |-> "idle"]
    /\ att = [p \in Procs |-> Idle]
    /\ hist = <<>>

NextTable ==
    \/ Tick
    \/ Insert({"bob", "Bob"}, {"10.0.0.1"}, TableRows)
    \/ Evaluate({"bob"}, {"10.0.0.1"})

SpecTable == InitTable /\ [][NextTable]_vars

----------------------------------------------------------------------------
(* One login attempt whose is_locked call is followed query by query while *)
(* other attempts of the same username append, finalize and clear rows     *)

RaceRows == 5

\* the row of the attempt whose call is followed
Followed == 1

\* what an atomic is_locked call would return on table l, as a truth value
AtomicIsLocked(l, ex) ==
    Truthy(UsernameIsLocked(l, policy["username"], now, "bob", ex))

\* hist of the followed attempt gathers in `seen` the results an atomic call
\* would give on the table as it stands from its first query on: before the
\* first query each change of the table starts afresh, after it each change
\* adds the result on the new table
Observe(h, l) ==
    [i \in 1..Len(h) |->
        IF h[i].path # "followed" THEN h[i]
        ELSE IF pc[Followed] = "user_decide"
        THEN [h[i] EXCEPT !.seen = @ \cup {AtomicIsLocked(l, h[i].id)}]
        ELSE [h[i] EXCEPT !.seen = {AtomicIsLocked(l, h[i].id)}]]

\* the followed attempt is left once its username check has returned
CallPending == pc[Followed] \in {"idle", "basic", "user_fetch", "user_decide"}

RaceHist(id, pw, path, seen) ==
    [NewHist(id, "bob", "10.0.0.1") EXCEPT !.password = pw, !.time = now]
        @@ [path |-> path, seen |-> seen]

\* step 1 of the followed attempt
FollowedStart(N) ==
    /\ pc[Followed] = "idle"
    /\ Len(log) < N
    /\ \A i \in 1..Len(hist) : hist[i].path # "followed"
    /\ LET id == Len(log) + 1
           l1 == Append(log, NewAttempt("bob", "10.0.0.1", now))
       IN  /\ log' = l1
           /\ att' = [att EXCEPT ![Followed] =
                         [Idle EXCEPT !.id = id, !.username = "bob",
                                      !.password = "wrong",
                                      !.source_address = "10.0.0.1"]]
           /\ hist' = Append(hist, RaceHist(id, "wrong", "followed",
                                            {AtomicIsLocked(l1, id)}))
    /\ Goto(Followed, "basic")
    /\ UNCHANGED <<now, policy, phase>>

\* another attempt: its record is created and its pre-checks run at once;
\* one that passes them goes on to fail or to pass the verification
OtherStart(N) ==
    /\ CallPending
    /\ Len(log) < N
    /\ LET id == Len(log) + 1
           l1 == Append(log, NewAttempt("bob", "10.0.0.1", now))
           rejected == UsernamePreAuthCheck(l1, policy["username"], now, "bob", id) # "ok"
                       \/ AddressPreAuthCheck(l1, policy["address"], now, "10.0.0.1", id) # "ok"
       IN  /\ log' = l1
           /\ \E path \in (IF rejected THEN {"failing"} ELSE {"failing", "succeeding"}) :
                 hist' = Observe(Append(hist,
                            RaceHist(id, IF path = "failing" THEN "wrong" ELSE "right",
                                     path, {})), l1)
    /\ UNCHANGED <<now, policy, phase, pc, att>>

\* step 6 of another attempt
OtherFinalizeFailure(i) ==
    /\ CallPending
    /\ i <= Len(hist)
    /\ hist[i].path = "failing"
    /\ log' = MarkFailure(log, i)
    /\ hist' = Observe([hist EXCEPT ![i].path = "done", ![i].code = "invalid_login"],
                       MarkFailure(log, i))
    /\ UNCHANGED <<now, policy, phase, pc, att>>

\* step 5 of another attempt: the record, then the two hooks
OtherFinalizeSuccess(i) ==
    /\ CallPending
    /\ i <= Len(hist)
    /\ hist[i].path = "succeeding"
    /\ log' = MarkSuccess(log, i)
    /\ hist' = Observe([hist EXCEPT ![i].path = "hook_user"], MarkSuccess(log, i))
    /\ UNCHANGED <<now, policy, phase, pc, att>>

OtherUsernameHook(i) ==
    /\ CallPending
    /\ i <= Len(hist)
    /\ hist[i].path = "hook_user"
    /\ log' = UsernameAuthSuccess(log, hist[i].username)
    /\ hist' = Observe([hist EXCEPT ![i].path = "hook_addr",
                                    ![i].hooks = @ \cup {"username"}],
                       UsernameAuthSuccess(log, hist[i].username))
    /\ UNCHANGED <<now, policy, phase, pc, att>>

OtherAddressHook(i) ==
    /\ CallPending
    /\ i <= Len(hist)
    /\ hist[i].path = "hook_addr"
    /\ log' = AddressAuthSuccess(log, hist[i].source_address)
    /\ hist' = Observe([hist EXCEPT ![i].path = "done", ![i].code = "success",
                                    ![i].hooks = @ \cup {"address"}],
                       AddressAuthSuccess(log, hist[i].source_address))
    /\ UNCHANGED <<now, policy, phase, pc, att>>

InitRace ==
    /\ log = <<>>
    /\ now = 0
    /\ \E mf \in 1..MaxMaxFailed, ld \in 1..MaxDuration :
          policy = [n \in PolicyNames |-> ClassAttrs(mf, ld)]
    /\ phase = "ready"
    /\ pc = [p \in Procs |-> "idle"]
    /\ att = [p \in Procs |-> Idle]
    /\ hist = <<>>

NextRace ==
    \/ FollowedStart(RaceRows)
    \/ StepBasicPre(Followed)
    \/ StepUsernameFetch(Followed)
    \/ StepUsernameDecide(Followed)
    \/ OtherStart(RaceRows)
    \/ \E i \in 1..RaceRows :
          \/ OtherFinalizeFailure(i)
          \/ OtherFinalizeSuccess(i)
          \/ OtherUsernameHook(i)
          \/ OtherAddressHook(i)

SpecRace == InitRace /\ [][NextRace]_vars

----------------------------------------------------------------------------
(* Login attempts of several usernames from several addresses, one at a    *)
(* time, each statement of the chain that reads or writes the table a step *)

FrameAttempts == 3

NextFrame ==
    \/ Start(Followed, Usernames, {"wrong", "right"}, Addresses, FrameAttempts)
    \/ StepBasicPre(Followed)
    \/ StepUsernameFetch(Followed)
    \/ StepUsernameDecide(Followed)
    \/ StepAddressFetch(Followed)
    \/ StepAddressDecide(Followed)
    \/ StepVerify(Followed)
    \/ StepFinalizeFailure(Followed)
    \/ StepFinalizeSuccess(Followed)
    \/ StepUsernameHook(Followed)
    \/ StepAddressHook(Followed)

SpecFrame == InitConc /\ [][NextFrame]_vars

----------------------------------------------------------------------------
(* Vocabulary of the properties: the lockout rules stated on the table,    *)
(* for either kind of key                                                  *)

Keys(kind) == IF kind = "username" THEN Usernames ELSE Addresses

HasKey(r, kind, key) ==
    IF kind = "username" THEN Lower(r.username) = Lower(key)
                         ELSE r.source_address = key

\* ids of the key's attempts, the excluded one left out
KeyIds(kind, key, ex) ==
    {i \in 1..Len(log) : HasKey(log[i], kind, key) /\ i # ex}

InWindow(kind, i) ==
    \A per \in policy[kind].period : log[i].timestamp > now - per

\* failed attempts of the key that count toward the threshold
Qualifying(kind, key, ex) ==
    {i \in KeyIds(kind, key, ex) :
        ~log[i].successful /\ log[i].lockout /\ InWindow(kind, i)}

MostRecent(kind, key, ex) == log[Max(KeyIds(kind, key, ex))]

Expired(kind, key, ex) ==
    MostRecent(kind, key, ex).timestamp < now - policy[kind].lockout_duration

\* the most recent attempt counts toward a lockout and is not yet expired
Hot(kind, key, ex) ==
    /\ KeyIds(kind, key, ex) # {}
    /\ MostRecent(kind, key, ex).lockout
    /\ ~Expired(kind, key, ex)

\* what is_locked returns for the key in the current state
IsLocked(kind, key, ex) ==
    IF kind = "username"
    THEN UsernameIsLocked(log, policy["username"], now, key, ex)
    ELSE AddressIsLocked(log, policy["address"], now, key, ex)

ExcludeIds == 0..Len(log)

Last == hist[Len(hist)]

----------------------------------------------------------------------------
\* C1 (threshold): for every key and every max_failed, when the key's most
\* recent attempt (the excluded one aside) has lockout set and is not older
\* than lockout_duration, is_locked returns True exactly when the number of
\* the key's failed attempts with lockout set, inside the period window, is
\* at least max_failed.
C1_Threshold ==
    \A kind \in PolicyNames : \A key \in Keys(kind) : \A ex \in ExcludeIds :
        Hot(kind, key, ex) =>
            ( IsLocked(kind, key, ex) = "True"
              <=> Cardinality(Qualifying(kind, key, ex)) >= policy[kind].max_failed )

\* a key with exactly max_failed qualifying failures is locked while another
\* with max_failed - 1 is not
C1_Witness ==
    /\ policy["username"].max_failed >= 2
    /\ \E k1, k2 \in Usernames :
          /\ Hot("username", k1, NoId) /\ Hot("username", k2, NoId)
          /\ Cardinality(Qualifying("username", k1, NoId)) = policy["username"].max_failed
          /\ IsLocked("username", k1, NoId) = "True"
          /\ Cardinality(Qualifying("username", k2, NoId)) = policy["username"].max_failed - 1
          /\ IsLocked("username", k2, NoId) = "False"

----------------------------------------------------------------------------
\* C2 (reset): right after a successful login attempt has completed, is_locked
\* is false for its username and for its source address and no attempt of
\* either key still counts toward a lockout, whatever failures came before
\* and whatever the period.
C2_Reset ==
    (hist # <<>> /\ Last.code = "success") =>
        \A kind \in PolicyNames :
            LET key == IF kind = "username" THEN Last.username ELSE Last.source_address
            IN  /\ ~Truthy(IsLocked(kind, key, NoId))
                /\ \A i \in KeyIds(kind, key, NoId) : ~log[i].lockout

\* a success that follows at least max_failed failures of the same username
C2_Witness ==
    /\ hist # <<>> /\ Last.code = "success"
    /\ Cardinality({i \in KeyIds("username", Last.username, NoId) : ~log[i].successful})
          >= policy["username"].max_failed
    /\ policy["username"].period # NoPeriod

----------------------------------------------------------------------------
\* C3 (expiry): when the key's most recent attempt is strictly older than
\* lockout_duration, is_locked is false even with max_failed or more
\* qualifying failures; at exactly lockout_duration the lock still holds.
C3_Expiry ==
    \A kind \in PolicyNames : \A key \in Keys(kind) : \A ex \in ExcludeIds :
        KeyIds(kind, key, ex) # {} =>
            LET age == now - MostRecent(kind, key, ex).timestamp
                enough == Cardinality(Qualifying(kind, key, ex)) >= policy[kind].max_failed
            IN  /\ age > policy[kind].lockout_duration
                      => ~Truthy(IsLocked(kind, key, ex))
                /\ ( /\ age = policy[kind].lockout_duration
                     /\ MostRecent(kind, key, ex).lockout
                     /\ enough )
                      => IsLocked(kind, key, ex) = "True"

\* a key whose failures meet the threshold and whose lock has lapsed
C3_Witness ==
    \E key \in Usernames :
        /\ KeyIds("username", key, NoId) # {}
        /\ MostRecent("username", key, NoId).lockout
        /\ Cardinality(Qualifying("username", key, NoId)) >= policy["username"].max_failed
        /\ now - MostRecent("username", key, NoId).timestamp
              = policy["username"].lockout_duration + 1
        /\ IsLocked("username", key, NoId) = "False"

----------------------------------------------------------------------------
\* C4: while a key is locked no login attempt for it succeeds, whatever the
\* credentials: an attempt started while its username or its address is
\* locked is rejected, with username_locked_out or address_locked_out when
\* that pre-check is reached; the verification is not invoked, the record
\* is never marked successful and no reset runs (no record changes).
LockedNow(kind, key) ==
    /\ Hot(kind, key, NoId)
    /\ Cardinality(Qualifying(kind, key, NoId)) >= policy[kind].max_failed

C4_NoLoginWhileLocked ==
    [][ /\ \A i \in 1..Len(log) : log'[i].successful = log[i].successful
        /\ Len(log') = Len(log) + 1 =>
             LET h == hist'[Len(hist')]
                 id == Len(log) + 1
                 ul == LockedNow("username", h.username)
                 al == LockedNow("address", h.source_address)
                 filled == h.username # "" /\ h.password # ""
             IN  /\ (ul \/ al) =>
                        /\ h.code # "success"
                        /\ ~h.verified
                        /\ h.hooks = {}
                        /\ ~log'[id].successful
                        /\ \A i \in 1..Len(log) : log'[i] = log[i]
                 /\ (filled /\ ul) => h.code = "username_locked_out"
                 /\ (filled /\ ~ul /\ al) => h.code = "address_locked_out"
      ]_vars

\* an attempt with the right password rejected because its username is locked
C4_Witness ==
    /\ hist # <<>>
    /\ Last.code = "username_locked_out"
    /\ Last.password = "right"
    /\ ~log[Last.id].successful

----------------------------------------------------------------------------
\* C5 (end to end, max_failed = 3, no prior attempts, one username): the
\* first max_failed attempts, all with a wrong password, are each rejected
\* as invalid_login after the credentials were verified (the last of them
\* is not yet rejected as locked: its own record is excluded); the next
\* attempt, with the right password and made while the lock holds, is
\* rejected as username_locked_out; an attempt made after more than
\* lockout_duration, with the right password of an active user, succeeds
\* and leaves every record of the username with lockout cleared.
E2EWrongUpTo(n) == \A j \in 1..n : hist[j].password = "wrong"

\* the attempt after the failures comes while the last failure is not older
\* than lockout_duration and all failures lie inside the period
E2EWhileLocked(n) ==
    /\ hist[n + 1].time - hist[n].time <= policy["username"].lockout_duration
    /\ \A per \in policy["username"].period : hist[n + 1].time - hist[1].time < per

C5_EndToEnd ==
    LET n == policy["username"].max_failed
    IN  /\ \A i \in 1..n :
              (i <= Len(hist) /\ E2EWrongUpTo(i)) =>
                  hist[i].code = "invalid_login" /\ hist[i].verified
        /\ ( /\ Len(hist) >= n + 1
             /\ E2EWrongUpTo(n)
             /\ hist[n + 1].password = "right"
             /\ E2EWhileLocked(n) ) =>
                  /\ hist[n + 1].code = "username_locked_out"
                  /\ ~hist[n + 1].verified
                  /\ ( /\ Len(hist) >= n + 2
                       /\ hist[n + 2].password = "right"
                       /\ hist[n + 2].user # "inactive"
                       /\ hist[n + 2].time - hist[n + 1].time
                              > policy["username"].lockout_duration ) =>
                            /\ hist[n + 2].code = "success"
                            /\ (Len(log) = n + 2 =>
                                   \A i \in KeyIds("username", "bob", NoId) : ~log[i].lockout)

\* the whole sequence has happened: three rejections as invalid_login, one
\* as locked out, then a success after the lock has lapsed
C5_Witness ==
    /\ Len(hist) = E2EMaxFailed + 2
    /\ Len(log) = E2EMaxFailed + 2
    /\ policy["username"].max_failed = E2EMaxFailed
    /\ E2EWrongUpTo(E2EMaxFailed)
    /\ hist[E2EMaxFailed].code = "invalid_login"
    /\ hist[E2EMaxFailed + 1].password = "right"
    /\ hist[E2EMaxFailed + 1].code = "username_locked_out"
    /\ hist[E2EMaxFailed + 2].code = "success"

----------------------------------------------------------------------------
\* C6: a key without recorded attempts, or whose recorded attempts are all
\* successful, is not locked: is_locked gives a false result for it at any
\* time, under any configuration and whatever id is excluded.
UnseenKeys == {"mallory", "10.9.9.9"}

C6_NoFailuresNotLocked ==
    \A kind \in PolicyNames : \A key \in Keys(kind) \cup UnseenKeys :
        (\A i \in KeyIds(kind, key, NoId) : log[i].successful) =>
            \A ex \in ExcludeIds : ~Truthy(IsLocked(kind, key, ex))

\* one username has only successful attempts, an address has none at all,
\* and another username is locked at the same moment
C6_Witness ==
    /\ \E key \in Usernames :
          /\ KeyIds("username", key, NoId) # {}
          /\ \A i \in KeyIds("username", key, NoId) : log[i].successful
    /\ \E a \in Addresses : KeyIds("address", a, NoId) = {}
    /\ \E key \in Usernames : IsLocked("username", key, NoId) = "True"

----------------------------------------------------------------------------
\* C9 (duration formatter): with days = s div 86400 and rem = s mod 86400
\* the phrase is "{days} days" if days > 1, "a day" if days = 1, else
\* "{rem div 60} minutes" if rem >= 120, "a minute" if 60 <= rem < 120 and
\* "{rem} seconds" if rem < 60; the message of a lockout rejection carries
\* the phrase for the configured lockout_duration, whenever it is raised.
LockoutMessage(phrase) == LockedText \o phrase \o "."

C9_Formatter ==
    \A i \in 1..Len(hist) :
        hist[i].code \in {"username_locked_out", "address_locked_out"} =>
            LET s == policy["username"].lockout_duration
                days == s \div 86400
                rem == s % 86400
                m == hist[i].msg
            IN  /\ days > 1 => m = LockoutMessage(ToString(days) \o " days")
                /\ days = 1 => m = LockoutMessage("a day")
                /\ (days = 0 /\ rem >= 120) =>
                       m = LockoutMessage(ToString(rem \div 60) \o " minutes")
                /\ (days = 0 /\ rem >= 60 /\ rem < 120) => m = LockoutMessage("a minute")
                /\ (days = 0 /\ rem < 60) => m = LockoutMessage(ToString(rem) \o " seconds")
                /\ s = 86400 => m = LockoutMessage("a day")
                /\ s = 86401 => m = LockoutMessage("a day")
                /\ s = 7200 => m = LockoutMessage("120 minutes")
                /\ s = 90 => m = LockoutMessage("a minute")
                /\ s = 45 => m = LockoutMessage("45 seconds")

\* a lockout of one day and one second reported as "a day", one second
\* after the failure that caused it
C9_Witness ==
    /\ hist # <<>>
    /\ Last.code = "username_locked_out"
    /\ policy["username"].lockout_duration = 86401
    /\ Last.msg = "Too many failed login attempts. Your account has been locked for a day."
    /\ Last.time = log[1].timestamp + 1

----------------------------------------------------------------------------
\* C7 (configuration check): an evaluator whose period is set and does not
\* exceed its lockout_duration fails when it is constructed, so no login
\* attempt is ever checked by it.
ValidPeriods ==
    \A n \in PolicyNames :
        \A per \in policy[n].period : per > policy[n].lockout_duration

C7_ConfigurationChecked ==
    ~ValidPeriods => (phase # "ready" /\ hist = <<>>)

----------------------------------------------------------------------------
\* C8 (independent keys): a successful login for username u from address a
\* changes the result of is_locked (locked or not) for no address other than
\* a and for no username other than u (compared case-insensitively).
C8_KeysIndependent ==
    [][ (Len(log') = Len(log) + 1 /\ hist'[Len(hist')].code = "success") =>
            LET h == hist'[Len(hist')]
            IN  /\ \A b \in Addresses \ {h.source_address} :
                      Truthy(IsLocked("address", b, NoId))' = Truthy(IsLocked("address", b, NoId))
                /\ \A v \in Usernames :
                      Lower(v) # Lower(h.username) =>
                          Truthy(IsLocked("username", v, NoId))'
                              = Truthy(IsLocked("username", v, NoId))
      ]_vars

----------------------------------------------------------------------------
\* C10 (bounded race): with NProcs login attempts of one username running
\* concurrently, as long as nothing was reset (no attempt succeeded) and
\* nothing has expired, the number of attempts that passed the username
\* lockout pre-check is at most max_failed + NProcs - 1; and once no attempt
\* is in flight and at least max_failed attempts have failed, is_locked
\* returns True for the username.
NoResetNoExpiry ==
    /\ \A i \in 1..Len(log) : ~log[i].successful
    /\ \A p \in Procs : pc[p] \notin {"success", "hook_user", "hook_addr"}
    /\ log # <<>> => now - log[1].timestamp <= policy["username"].lockout_duration

PassedUsernameCheck ==
    {i \in 1..Len(hist) : hist[i].user_checked /\ ~hist[i].user_locked}

C10_BoundedRace ==
    NoResetNoExpiry =>
        /\ Cardinality(PassedUsernameCheck)
              <= policy["username"].max_failed + NProcs - 1
        /\ ( /\ \A p \in Procs : pc[p] = "idle"
             /\ Len(log) >= policy["username"].max_failed )
              => IsLocked("username", "bob", NoId) = "True"

\* two attempts in flight at once have both passed the lockout pre-checks
\* and are about to fail the verification
C10_Witness ==
    /\ NoResetNoExpiry
    /\ \A p \in Procs : pc[p] = "verify" /\ att[p].password = "wrong"
    /\ Cardinality(PassedUsernameCheck) = policy["username"].max_failed

----------------------------------------------------------------------------
\* C11 (no lost updates on the append path): under any interleaving of
\* concurrent login attempts of one username, every attempt has exactly one
\* record, with the next higher id; a step that is neither the finalization
\* of a success nor a reset never lowers the count the username evaluator
\* reads, and the finalization of a failed attempt leaves that attempt's
\* record counted; so when nothing was reset and all attempts have finished,
\* the count equals the number of failed attempts.
StoredCount == UsernameLockoutCount(log, policy["username"], now, "bob", NoId)

FailedAttempts == {i \in 1..Len(hist) : hist[i].code \notin {"pending", "success"}}

Quiescent == \A p \in Procs : pc[p] = "idle"

ResetStep ==
    \E p \in Procs : pc[p] \in {"success", "hook_user", "hook_addr"} /\ pc'[p] # pc[p]

C11_OneRecordEach ==
    /\ Len(hist) = Len(log)
    /\ \A i \in 1..Len(hist) : hist[i].id = i
    /\ \A p \in Procs : \A q \in Procs \ {p} :
          (pc[p] # "idle" /\ pc[q] # "idle") => att[p].id # att[q].id
    /\ (Quiescent /\ \A i \in 1..Len(log) : ~log[i].successful) =>
          /\ Cardinality(FailedAttempts) = Len(log)
          /\ StoredCount >= Cardinality(FailedAttempts)

C11_NoLostUpdates ==
    /\ []C11_OneRecordEach
    /\ [][ /\ Len(log') \in {Len(log), Len(log) + 1}
           /\ ~ResetStep => StoredCount' >= StoredCount
           /\ \A p \in Procs :
                 (pc[p] = "failed" /\ pc'[p] = "idle") =>
                     /\ ~log'[att[p].id].successful
                     /\ log'[att[p].id].lockout
                     /\ StoredCount' >= StoredCount
         ]_vars

\* all attempts have failed and finished, two of them within the same second
C11_Witness ==
    /\ Quiescent
    /\ Len(log) = ConcAttempts
    /\ Cardinality(FailedAttempts) = ConcAttempts
    /\ StoredCount = ConcAttempts
    /\ \E i \in 1..Len(log) : \E j \in 1..Len(log) :
          i # j /\ log[i].timestamp = log[j].timestamp

----------------------------------------------------------------------------
\* C12 (short-circuit, single outcome): the pre-checks are called in the
\* configured order; the first one that fails (the basic check on an empty
\* username or password, the whitelist on a username no pattern matches, a
\* lockout check on a locked key) gives the returned code (invalid_login,
\* invalid_login, username_locked_out / address_locked_out), no later
\* pre-check is called and neither are the verification and the post-checks;
\* when no pre-check fails the verification is called and an unresolved
\* identity gives invalid_login, a deactivated one inactive; the record is
\* marked successful exactly when the verification resolved an active
\* identity after every pre-check passed.  Stated on the state the attempt
\* leaves, before the clock moves on.
C12Fails(name, h) ==
    CASE name = "basic" -> h.username = "" \/ h.password = ""
      [] name = "whitelist" ->
            ~\E i \in 1..Len(policy["whitelist"].whitelist) :
                 RegexSearch(policy["whitelist"].whitelist[i], h.username)
      [] name = "username" ->
            /\ Hot("username", h.username, h.id)
            /\ Cardinality(Qualifying("username", h.username, h.id))
                  >= policy["username"].max_failed
      [] name = "address" ->
            /\ Hot("address", h.source_address, h.id)
            /\ Cardinality(Qualifying("address", h.source_address, h.id))
                  >= policy["address"].max_failed

C12Code(name) ==
    CASE name = "basic" -> "invalid_login"
      [] name = "whitelist" -> "invalid_login"
      [] name = "username" -> "username_locked_out"
      [] name = "address" -> "address_locked_out"

C12FirstFail(order, h) ==
    {k \in 1..Len(order) :
        C12Fails(order[k], h) /\ \A j \in 1..(k - 1) : ~C12Fails(order[j], h)}

C12_ShortCircuit ==
    (hist # <<>> /\ now = Last.time) =>
        LET h == Last
            order == policy["handler"].policies
        IN  /\ \A k \in C12FirstFail(order, h) :
                  /\ h.code = C12Code(order[k])
                  /\ h.pre = SubSeq(order, 1, k)
                  /\ ~h.verified
                  /\ h.post = <<>>
            /\ C12FirstFail(order, h) = {} =>
                  /\ h.pre = order
                  /\ h.verified
                  /\ h.user = NoneVal => h.code = "invalid_login"
                  /\ h.user = "inactive" => h.code = "inactive"
                  /\ h.user = "active" => h.code = "success"
            /\ log[h.id].successful <=> h.code = "success"
            /\ h.code = "success" =>
                  h.verified /\ h.user = "active" /\ h.post = order

\* an attempt rejected because its address is locked, although the whitelist
\* and the basic check, configured after the address check, would have
\* rejected it too
C12_Witness ==
    /\ hist # <<>>
    /\ policy["handler"].policies = <<"username", "address", "whitelist", "basic">>
    /\ Last.code = "address_locked_out"
    /\ Last.pre = <<"username", "address">>
    /\ Last.password = ""
    /\ C12Fails("whitelist", Last)
    /\ ~Last.verified

----------------------------------------------------------------------------
\* C13 (one algorithm, two keys): for every address and every excluded id
\* the decision of the address evaluator (locked or not) is that of the five
\* steps of the lockout algorithm with the address as key: the most recent
\* attempt by id exists, has lockout set, is not older than
\* lockout_duration, and the attempts with successful=false and lockout=true
\* inside the period number at least max_failed; the same holds for the
\* username evaluator; and no record is successful with lockout set.
FiveSteps(kind, key, ex) ==
    /\ Hot(kind, key, ex)
    /\ Cardinality(Qualifying(kind, key, ex)) >= policy[kind].max_failed

C13_SameAlgorithm ==
    /\ \A a \in Addresses \cup UnseenKeys : \A ex \in ExcludeIds :
          Truthy(AddressIsLocked(log, policy["address"], now, a, ex))
              <=> FiveSteps("address", a, ex)
    /\ \A u \in Usernames \cup UnseenKeys : \A ex \in ExcludeIds :
          Truthy(UsernameIsLocked(log, policy["username"], now, u, ex))
              <=> FiveSteps("username", u, ex)
    /\ \A i \in 1..Len(log) : ~(log[i].successful /\ log[i].lockout)

\* an address with a successful attempt on record is locked by the failures
\* that came after it
C13_Witness ==
    \E a \in Addresses :
        /\ \E i \in KeyIds("address", a, NoId) : log[i].successful
        /\ AddressIsLocked(log, policy["address"], now, a, NoId) = "True"
        /\ Cardinality(Qualifying("address", a, NoId)) = policy["address"].max_failed

----------------------------------------------------------------------------
\* C14 (sliding window): with period set, the count is that of the key's
\* failed attempts with lockout set whose timestamp is strictly later than
\* now - period, so a key with fewer than max_failed of them inside the
\* window is not locked, however many older ones it has; with period absent
\* every failed attempt with lockout set counts, however old.
EverQualifying(kind, key, ex) ==
    {i \in KeyIds(kind, key, ex) : ~log[i].successful /\ log[i].lockout}

InsideWindow(kind, key, ex, per) ==
    {i \in EverQualifying(kind, key, ex) : log[i].timestamp > now - per}

LockoutCount(kind, key, ex) ==
    IF kind = "username"
    THEN UsernameLockoutCount(log, policy["username"], now, key, ex)
    ELSE AddressLockoutCount(log, policy["address"], now, key, ex)

C14_SlidingWindow ==
    \A kind \in PolicyNames : \A key \in Keys(kind) : \A ex \in ExcludeIds :
        /\ \A per \in policy[kind].period :
              /\ LockoutCount(kind, key, ex)
                    = Cardinality(InsideWindow(kind, key, ex, per))
              /\ Cardinality(InsideWindow(kind, key, ex, per)) < policy[kind].max_failed
                    => ~Truthy(IsLocked(kind, key, ex))
        /\ policy[kind].period = NoPeriod =>
              /\ LockoutCount(kind, key, ex)
                    = Cardinality(EverQualifying(kind, key, ex))
              /\ Hot(kind, key, ex) =>
                    ( IsLocked(kind, key, ex) = "True"
                      <=> Cardinality(EverQualifying(kind, key, ex))
                              >= policy[kind].max_failed )

\* a username with max_failed failures, the oldest exactly one period old:
\* its most recent failure is fresh, yet it is not locked
C14_Witness ==
    /\ ValidPeriods
    /\ \E key \in Usernames : \E per \in policy["username"].period :
          /\ Hot("username", key, NoId)
          /\ Cardinality(EverQualifying("username", key, NoId))
                >= policy["username"].max_failed
          /\ Cardinality(InsideWindow("username", key, NoId, per))
                < policy["username"].max_failed
          /\ \E i \in EverQualifying("username", key, NoId) :
                log[i].timestamp = now - per
          /\ IsLocked("username", key, NoId) = "False"

----------------------------------------------------------------------------
\* C15 (most recent by id): the flag and the timestamp is_locked examines
\* are those of the key's row with the highest id (the excluded one aside),
\* whatever the timestamps of the other rows: when that row has lockout
\* cleared, or is older than lockout_duration, the key is not locked, even
\* if a row with an equal or later timestamp has lockout set and is fresh;
\* when that row has lockout set and is fresh the count decides.
C15Current(h) == h.time = now /\ h.rows = Len(log)

C15_MostRecentById ==
    (hist # <<>> /\ C15Current(Last)) =>
        LET h == Last
            ids == KeyIds(h.kind, h.key, h.exclude_id)
            top == log[Max(ids)]
            fresh == top.timestamp >= now - policy[h.kind].lockout_duration
            enough == Cardinality(EverQualifying(h.kind, h.key, h.exclude_id))
                          >= policy[h.kind].max_failed
        IN  /\ ids = {} => ~Truthy(h.result)
            /\ ids # {} =>
                  /\ ~top.lockout => ~Truthy(h.result)
                  /\ ~fresh => ~Truthy(h.result)
                  /\ (top.lockout /\ fresh) => (Truthy(h.result) <=> enough)

\* the username's highest-id row has lockout cleared; an earlier row with a
\* later timestamp has lockout set, is fresh and alone meets the threshold:
\* not locked
C15_Witness ==
    /\ hist # <<>> /\ C15Current(Last)
    /\ Last.kind = "username" /\ Last.exclude_id = NoId
    /\ Last.result = "False"
    /\ LET ids == KeyIds("username", Last.key, NoId)
       IN  /\ ids # {}
           /\ ~log[Max(ids)].lockout
           /\ \E i \in ids :
                 /\ log[i].lockout /\ ~log[i].successful
                 /\ log[i].timestamp > log[Max(ids)].timestamp
                 /\ log[i].timestamp >= now - policy["username"].lockout_duration
           /\ Cardinality(EverQualifying("username", Last.key, NoId))
                 >= policy["username"].max_failed

----------------------------------------------------------------------------
\* C16 (atomic evaluation): whatever appends, finalizations and bulk clears
\* of the same username come between the two queries of an is_locked call,
\* the call returns what a call running all at once would have returned on
\* the table as it stood at its first query, at its second query, or at
\* some moment in between.
FollowedCalls == {i \in 1..Len(hist) : hist[i].path = "followed" /\ hist[i].user_checked}

C16_AtomicEvaluation ==
    \A i \in FollowedCalls : hist[i].user_locked \in hist[i].seen

----------------------------------------------------------------------------
\* C17 (frame): auth_success of the username policy deletes and adds no
\* row and changes no row except that it clears lockout on rows whose
\* username equals the attempt's, compared case-insensitively; auth_success
\* of the address policy likewise, on rows whose source address equals the
\* attempt's exactly; id, username, source_address, timestamp and successful
\* of every row are kept; the queries of is_locked change no row.
OnlyLockoutCleared(r, r2) == r2 = r \/ (r.lockout /\ r2 = [r EXCEPT !.lockout = FALSE])

C17_Frame ==
    [][ \A p \in Procs :
          /\ (pc[p] = "hook_user" /\ pc'[p] # pc[p]) =>
                /\ Len(log') = Len(log)
                /\ \A i \in 1..Len(log) :
                      /\ OnlyLockoutCleared(log[i], log'[i])
                      /\ log'[i] # log[i] =>
                            Lower(log[i].username) = Lower(att[p].username)
                      /\ Lower(log[i].username) = Lower(att[p].username) =>
                            ~log'[i].lockout
          /\ (pc[p] = "hook_addr" /\ pc'[p] # pc[p]) =>
                /\ Len(log') = Len(log)
                /\ \A i \in 1..Len(log) :
                      /\ OnlyLockoutCleared(log[i], log'[i])
                      /\ log'[i] # log[i] =>
                            log[i].source_address = att[p].source_address
                      /\ log[i].source_address = att[p].source_address =>
                            ~log'[i].lockout
          /\ ( /\ pc[p] \in {"user_fetch", "user_decide", "addr_fetch", "addr_decide"}
               /\ pc'[p] # pc[p] ) => log' = log
      ]_vars

\* the success hooks are about to run for an attempt of Bob, while rows of
\* bob (another spelling) and of eve, from both addresses, have lockout set
C17_Witness ==
    /\ pc[Followed] = "hook_user"
    /\ att[Followed].username = "Bob"
    /\ \E i \in 1..Len(log) : \E j \in 1..Len(log) :
          /\ log[i].username = "bob" /\ log[i].lockout
          /\ log[i].source_address # att[Followed].source_address
          /\ log[j].username = "eve" /\ log[j].lockout

----------------------------------------------------------------------------
\* C18 (every rejection counts): an attempt that ends in a rejection,
\* whichever check rejected it (empty input, whitelist, a locked key, the
\* verification, an inactive identity), leaves exactly one row, with
\* successful=false and lockout=true; the row is the most recent one of its
\* username and of its address and adds one to the count of both; so a key
\* whose failures, this one included, reach max_failed is locked until
\* lockout_duration after this attempt, and an attempt rejected while its
\* key was locked prolongs the lock.
C18Key(kind, h) == IF kind = "username" THEN h.username ELSE h.source_address

C18_EveryRejectionCounts ==
    (hist # <<>> /\ Last.code # "success") =>
        LET h == Last
        IN  /\ Len(log) = h.id
            /\ ~log[h.id].successful
            /\ log[h.id].lockout
            /\ log[h.id].timestamp = h.time
            /\ \A kind \in PolicyNames :
                  LET key == C18Key(kind, h)
                  IN  /\ h.id \in EverQualifying(kind, key, NoId)
                      /\ MostRecent(kind, key, NoId) = log[h.id]
                      /\ LockoutCount(kind, key, NoId)
                            = LockoutCount(kind, key, h.id) + 1
                      /\ Cardinality(EverQualifying(kind, key, NoId))
                              >= policy[kind].max_failed
                            => ( IsLocked(kind, key, NoId) = "True"
                                 <=> now - h.time <= policy[kind].lockout_duration )

\* an attempt was rejected because its username was locked; the failure
\* that caused the lock is older than lockout_duration by now, yet the
\* username is still locked
C18_Witness ==
    /\ hist # <<>>
    /\ Last.code = "username_locked_out"
    /\ now = Last.time + policy["username"].lockout_duration
    /\ log[1].timestamp < now - policy["username"].lockout_duration
    /\ IsLocked("username", Last.username, NoId) = "True"

----------------------------------------------------------------------------
\* C19 (expiry keeps the count): the failures a key has gathered since its
\* last successful attempt keep lockout set when the lock they caused
\* expires, and go on counting: whenever they number max_failed or more,
\* they all still have lockout set, and, with period absent or all of them
\* inside the period, the key is locked as soon as its most recent failure
\* is not older than lockout_duration; only a successful attempt for the
\* key brings the count back to zero.
SinceSuccess(kind, key) ==
    LET ids == KeyIds(kind, key, NoId)
    IN  {i \in ids : \A j \in ids : log[j].successful => j < i}

C19_ExpiryKeepsCount ==
    \A kind \in PolicyNames : \A key \in Keys(kind) :
        ( /\ Cardinality(SinceSuccess(kind, key)) >= policy[kind].max_failed
          /\ \A i \in SinceSuccess(kind, key) : InWindow(kind, i) )
            => /\ \A i \in SinceSuccess(kind, key) : log[i].lockout
               /\ ~Expired(kind, key, NoId)
                     => IsLocked(kind, key, NoId) = "True"

----------------------------------------------------------------------------
\* C20 (in-flight records cause no false lockout): an attempt with correct
\* credentials is rejected by a lockout pre-check (username_locked_out or
\* address_locked_out) only when at least max_failed failed attempts of the
\* key have been completed since the last reset, whatever the number of
\* other attempts of the key whose record is created and whose outcome is
\* not yet known.
CompletedFailures ==
    {i \in 1..Len(hist) :
        hist[i].code \notin {"pending", "success"} /\ log[i].lockout}

C20Check(p) ==
    IF pc[p] = "user_decide" THEN "username"
    ELSE IF pc[p] = "addr_decide" THEN "address" ELSE "none"

C20_NoFalseLockout ==
    [][ \A p \in Procs :
           ( /\ att[p].password = "right"
             /\ C20Check(p) # "none"
             /\ pc'[p] = "failed" )
              => Cardinality(CompletedFailures)
                    >= policy[C20Check(p)].max_failed ]_vars

====
